---- MODULE Spec2Model ----
(***************************************************************************)
(* LLM-EDGE gateway core: per-provider metrics tracker (balancer/stats.rs),*)
(* provider handle and router (router/mod.rs), response cache              *)
(* (cache/mod.rs) and the request handler (gateway.rs).                    *)
(*                                                                         *)
(* Four specifications share the definitions below:                        *)
(*   SpecRouter  single-threaded use of Router and ProviderStats           *)
(*   SpecCache   single-threaded use of SemanticCache against a clock      *)
(*   Spec        concurrent requests through handle_chat_completions, as   *)
(*               main() wires the gateway                                  *)
(*   SpecLive    Spec under fair scheduling of the requests                *)
(*   SpecReload  the same with update_providers called concurrently        *)
(*   SpecStats   worker threads calling record_success and record_failure  *)
(*               on one tracker, one atomic access per step                *)
(*   SpecEwma    record_success called again and again with one latency    *)
(***************************************************************************)
EXTENDS Integers, Sequences, FiniteSets, TLC

VARIABLES
    handles,     \* heap of Arc<Provider>: handle index -> config and tracker fields
    providers,   \* Router.providers (ArcSwap): the installed list of handle indices
    installed,   \* history: every list ever installed, in order
    cache,       \* SemanticCache.inner: digest -> [value, inserted]
    now,         \* clock, in seconds
    tasks,       \* one record per request slot of handle_chat_completions
    started,     \* number of requests (Spec) or tracker operations (SpecRouter) issued
    fails,       \* history: per handle, record_failure calls since the last record_success
    puts,        \* history: per digest, the last put and what happened to it since
    last         \* history: the most recent completed operation

vars == <<handles, providers, installed, cache, now, tasks, started, fails, puts, last>>

-----------------------------------------------------------------------------
(* Bounds of the model *)

MaxUpdates == 1      \* update_providers calls explored
MaxOps == 6          \* tracker operations explored by SpecRouter
MaxCapacity == 1     \* max_capacity handed to SemanticCache::new
TtlSecs == 2         \* ttl_secs handed to SemanticCache::new
MaxTime == 2         \* clock ticks explored
MaxRequests == 3     \* requests started in Spec
MaxReloadRequests == 2   \* requests started in SpecReload
WarmStreak == 4      \* failures p1 may have behind it when Spec starts
MaxStatsOps == 4     \* tracker calls explored by SpecStats
MaxMicros == 40      \* largest latency and largest starting EWMA explored by SpecEwma
MaxEwmaCalls == 40   \* record_success calls explored by SpecEwma

(* Program constants *)

HealthThreshold == 5     \* router/mod.rs:25   consec_errors < 5
EwmaOldWeight == 7       \* stats.rs:46        old * 7
EwmaDivisor == 8         \* stats.rs:46        / 8
LatencyDivisor == 1000   \* router/mod.rs:113  ewma_latency_us / 1000.0
CostWeight == 100        \* router/mod.rs:121  cost_score * 100.0

-----------------------------------------------------------------------------
(* Option<T> *)

None == <<>>
Some(x) == <<x>>
IsSome(o) == o # None
Unwrap(o) == o[1]

(***************************************************************************)
(* f64 values as [k, v]: a finite value v (k = "fin"), f64::MAX            *)
(* (k = "max") or +infinity (k = "inf").  Finite scores are kept in        *)
(* thousandths (microseconds) so that the arithmetic is exact.             *)
(***************************************************************************)
Fin(v) == [k |-> "fin", v |-> v]
F64Max == [k |-> "max", v |-> 0]
F64Inf == [k |-> "inf", v |-> 0]

F64Rank(a) == CASE a.k = "fin" -> 0 [] a.k = "max" -> 1 [] OTHER -> 2

\* a < b on f64
F64Lt(a, b) ==
    \/ F64Rank(a) < F64Rank(b)
    \/ a.k = "fin" /\ b.k = "fin" /\ a.v < b.v

-----------------------------------------------------------------------------
(* model.rs: ProviderConfig.  cost_per_1k_input is held in thousandths of a
   dollar (0.01 is Fin(10)), so the number held is cost_score, the product
   cost_per_1k_input * 1000.0 of select; a cost so large that the product
   overflows is held as F64Inf.  model_map maps client model names to provider
   model names. *)

Models == {"gpt-4", "llama"}
Prompts == {"common_prompt", "Common_Prompt", "unique_50"}

GptMap == [m \in {"gpt-4"} |-> "gpt-4-turbo"]

ProviderConfig(id, name, cost, map) ==
    [id |-> id, name |-> name, cost_per_1k_input |-> cost, model_map |-> map]

CfgP1 == ProviderConfig("p1", "MockOpenAI", Fin(10), GptMap)
CfgP2 == ProviderConfig("p2", "MockAnthropic", Fin(12), GptMap)
CfgP2Cheap == ProviderConfig("p2", "MockAnthropic", Fin(10), GptMap)
CfgP3Huge == ProviderConfig("p3", "Overpriced", F64Inf, GptMap)

\* the list main() builds
MainConfigs == <<CfgP1, CfgP2>>

\* lists handed to update_providers
ConfigLists == {<<CfgP2Cheap, CfgP1>>, <<CfgP3Huge>>}

\* round-trip time of a call in microseconds: the simulator runs the mock behind
\* p1 with 50 ms of latency and the one behind p2 with 200 ms
CallLatency(config) == IF config.id = "p2" THEN 200000 ELSE 50000

-----------------------------------------------------------------------------
(* balancer/stats.rs: ProviderStats *)

StatsNew ==
    [request_count |-> 0, error_count |-> 0,
     p50_latency_us |-> 0, p99_latency_us |-> 0,
     ewma_latency_us |-> 0, consec_errors |-> 0]

\* the update of the EWMA without the branch for old == 0
EwmaNextUnseeded(old, latency_us) ==
    (old * EwmaOldWeight + latency_us) \div EwmaDivisor

\* the value record_success computes from the EWMA it read
EwmaNext(old, latency_us) ==
    IF old = 0 THEN latency_us
    ELSE (old * EwmaOldWeight + latency_us) \div EwmaDivisor

\* record_success run to completion with no other thread on the tracker
record_success(s, latency_us) ==
    [s EXCEPT !.request_count = @ + 1,
              !.consec_errors = 0,
              !.ewma_latency_us = EwmaNext(@, latency_us)]

record_failure(s) ==
    [s EXCEPT !.error_count = @ + 1, !.consec_errors = @ + 1]

-----------------------------------------------------------------------------
(* router/mod.rs: Provider *)

ProviderNew(config) == [config |-> config, stats |-> StatsNew]

\* the breaker as its comment words it: unhealthy only above the threshold
is_healthy_above(p) == p.stats.consec_errors <= HealthThreshold

is_healthy(p) == p.stats.consec_errors < HealthThreshold

supports_model(p, model) == model \in DOMAIN p.config.model_map

\* a filter that lets an unhealthy provider through as a probe
EligibleAnyHealth(p, model) == supports_model(p, model)

\* the filter closure of select
Eligible(p, model) == supports_model(p, model) /\ is_healthy(p)

\* score of select, latency_score + cost_score * 100.0, times LatencyDivisor
Score(p) ==
    LET cost == p.config.cost_per_1k_input
    IN  IF cost.k = "fin"
        THEN Fin(p.stats.ewma_latency_us
                 + cost.v * CostWeight * LatencyDivisor)
        ELSE cost

\* the body of the for loop of select for candidate h: acc = [best, best_score]
SelectKeep(acc, h, p) ==
    IF F64Lt(Score(p), acc.best_score)
    THEN [best |-> Some(h), best_score |-> Score(p)]
    ELSE acc

\* one element of the list through the filter and the loop body
SelectVisit(acc, h, p, model) ==
    IF Eligible(p, model) THEN SelectKeep(acc, h, p) ELSE acc

SelectInit == [best |-> None, best_score |-> F64Max]

RECURSIVE SelectLoop(_, _, _, _, _)
SelectLoop(acc, list, i, heap, model) ==
    IF i > Len(list) THEN acc
    ELSE SelectLoop(SelectVisit(acc, list[i], heap[list[i]], model),
                    list, i + 1, heap, model)

\* Router::select over a loaded list with the metrics held fixed
select(list, heap, model) == SelectLoop(SelectInit, list, 1, heap, model).best

\* update_providers keeping the tracker of a provider whose id was installed before
FreshHandlesMerged(heap, configs) ==
    heap \o [i \in 1..Len(configs) |->
               LET old == {h \in 1..Len(heap) : heap[h].config.id = configs[i].id}
               IN  IF old = {} THEN [config |-> configs[i], stats |-> StatsNew]
                   ELSE [config |-> configs[i],
                         stats |-> heap[CHOOSE h \in old : \A g \in old : g <= h].stats]]

\* Router::new / update_providers: fresh handles appended to the heap
FreshHandles(heap, configs) ==
    heap \o [i \in 1..Len(configs) |-> ProviderNew(configs[i])]

FreshList(heap, configs) == [i \in 1..Len(configs) |-> Len(heap) + i]

Range(s) == {s[i] : i \in 1..Len(s)}

-----------------------------------------------------------------------------
(* cache/mod.rs: SemanticCache *)

\* blake3 of the prompt bytes, in hex (digests abbreviated): the bytes are hashed
\* as they are, so prompts that differ in case or spacing get different keys
hash_key(prompt) ==
    CASE prompt = "common_prompt" -> "3b1f"
      [] prompt = "Common_Prompt" -> "a07c"
      [] OTHER -> "e4d2"

\* an entry that expires a second before its time to live
ExpiredEarly(e, t) == t - e.inserted >= TtlSecs - 1

\* time_to_live: an entry is expired once ttl_secs have passed since its insert
Expired(e, t) == t - e.inserted >= TtlSecs

\* Cache::get under time_to_live
CacheLookup(c, key, t) ==
    IF key \in DOMAIN c /\ ~Expired(c[key], t) THEN Some(c[key].value) ELSE None

\* a cache built with time_to_idle: a read renews the entry
CacheAfterReadRenewed(c, key, t) ==
    IF key \in DOMAIN c /\ ~Expired(c[key], t)
    THEN [c EXCEPT ![key].inserted = t] ELSE c

\* the cache after a read: under time_to_live a read leaves the entries and
\* their insert times as they are
CacheAfterRead(c, key, t) == c

\* a lookup that lower-cases the prompt before hashing it
Lower(prompt) == IF prompt = "Common_Prompt" THEN "common_prompt" ELSE prompt

get_normalized(c, prompt, t) == CacheLookup(c, hash_key(Lower(prompt)), t)

get(c, prompt, t) == CacheLookup(c, hash_key(prompt), t)

CacheRemove(c, key) == [k \in DOMAIN c \ {key} |-> c[k]]

\* a cache built without max_capacity
CacheInsertUnbounded(c, key, value, t) ==
    {[k \in DOMAIN c \cup {key} |->
         IF k = key THEN [value |-> value, inserted |-> t] ELSE c[k]]}

\* Cache::insert under max_capacity: the outcomes of storing key -> value at t
CacheInsert(c, key, value, t) ==
    LET c1 == [k \in DOMAIN c \cup {key} |->
                  IF k = key THEN [value |-> value, inserted |-> t] ELSE c[k]]
    IN  IF Cardinality(DOMAIN c1) <= MaxCapacity THEN {c1}
        ELSE {CacheRemove(c1, victim) : victim \in DOMAIN c1}

\* a put that returns without inserting
put_dropped(c, prompt, response, t) == {c}

put(c, prompt, response, t) == CacheInsert(c, hash_key(prompt), response, t)

Retrievable(c, t) == {k \in DOMAIN c : ~Expired(c[k], t)}

-----------------------------------------------------------------------------
(* Initial state: main() builds the router from MainConfigs and an empty cache *)

NoOp(op) ==
    [op |-> op, h |-> 0, model |-> "", result |-> None,
     list |-> <<>>, before |-> 0, unhealthy |-> {},
     prompt |-> "", keys |-> {}, at |-> 0,
     cached |-> None, prior |-> [inwin |-> FALSE, evicted |-> FALSE, value |-> None],
     call_result |-> "", outcome |-> [status |-> 0, body |-> None],
     selects |-> 0, calls |-> 0, others |-> {},
     called |-> <<>>, applied |-> <<>>, retries |-> 0, latency |-> 0,
     records |-> 0]

InitCommon ==
    /\ handles = FreshHandles(<<>>, MainConfigs)
    /\ providers = FreshList(<<>>, MainConfigs)
    /\ installed = <<FreshList(<<>>, MainConfigs)>>
    /\ cache = <<>>
    /\ now = 0
    /\ started = 0
    /\ fails = [i \in 1..Len(MainConfigs) |-> 0]
    /\ puts = <<>>
    /\ last = NoOp("new")

-----------------------------------------------------------------------------
(* SpecRouter: Router and ProviderStats called from one thread *)

\* provider.stats.record_success(latency) on a handle of the installed list
RecordSuccess(h, latency_us) ==
    /\ started < MaxOps
    /\ handles' = [handles EXCEPT ![h].stats = record_success(@, latency_us)]
    /\ fails' = [fails EXCEPT ![h] = 0]
    /\ started' = started + 1
    /\ last' = [NoOp("record_success") EXCEPT !.h = h, !.before = fails[h]]
    /\ UNCHANGED <<providers, installed, cache, now, tasks, puts>>

\* provider.stats.record_failure()
RecordFailure(h) ==
    /\ started < MaxOps
    /\ handles' = [handles EXCEPT ![h].stats = record_failure(@)]
    /\ fails' = [fails EXCEPT ![h] = @ + 1]
    /\ started' = started + 1
    /\ last' = [NoOp("record_failure") EXCEPT !.h = h, !.before = fails[h]]
    /\ UNCHANGED <<providers, installed, cache, now, tasks, puts>>

\* router.update_providers(configs)
UpdateProviders(configs) ==
    /\ Len(installed) <= MaxUpdates
    /\ handles' = FreshHandles(handles, configs)
    /\ providers' = FreshList(handles, configs)
    /\ installed' = Append(installed, FreshList(handles, configs))
    /\ fails' = fails \o [i \in 1..Len(configs) |-> 0]
    /\ last' = [NoOp("update_providers") EXCEPT
                   !.list = providers,
                   !.unhealthy = {handles[h].config.id :
                                     h \in {x \in Range(providers) : ~is_healthy(handles[x])}}]
    /\ UNCHANGED <<cache, now, tasks, started, puts>>

\* router.select(req)
Select(model) ==
    /\ last' = [NoOp("select") EXCEPT
                   !.model = model, !.list = providers,
                   !.result = select(providers, handles, model)]
    /\ UNCHANGED <<handles, providers, installed, cache, now, tasks, started, fails, puts>>

RouterInit == InitCommon /\ tasks = <<>>

RouterNext ==
    \/ \E h \in Range(providers) : RecordSuccess(h, CallLatency(handles[h].config))
    \/ \E h \in Range(providers) : RecordFailure(h)
    \/ \E c \in ConfigLists : UpdateProviders(c)
    \/ \E m \in Models : Select(m)

SpecRouter == RouterInit /\ [][RouterNext]_vars

-----------------------------------------------------------------------------
(* SpecCache: SemanticCache called from one thread, against a clock *)

\* Provider::call's Ok value with latency_ms stamped by the handler
Response(config, latency_us) ==
    [content |-> "Content from provider", provider |-> config.name,
     latency_ms |-> latency_us \div LatencyDivisor]

Responses == {Response(c, CallLatency(c)) : c \in {CfgP1, CfgP2}}

\* history kept with a put: the entry of each key that left the cache because
\* the put overflowed the capacity is marked evicted
NotePut(key, value, c2) ==
    LET over == Cardinality(DOMAIN cache \cup {key}) > MaxCapacity
    IN  [k \in DOMAIN puts \cup {key} |->
            IF k = key
            THEN [value |-> value, at |-> now, hit |-> FALSE,
                  evicted |-> over /\ key \notin DOMAIN c2]
            ELSE [puts[k] EXCEPT !.evicted =
                     @ \/ (over /\ k \in DOMAIN cache /\ k \notin DOMAIN c2)]]

NoteGet(key, result) ==
    [k \in DOMAIN puts |->
        IF k = key /\ IsSome(result) THEN [puts[k] EXCEPT !.hit = TRUE] ELSE puts[k]]

\* cache.put(prompt, response)
CachePut(prompt, response) ==
    /\ \E c2 \in put(cache, prompt, response, now) :
          /\ cache' = c2
          /\ puts' = NotePut(hash_key(prompt), response, c2)
    /\ last' = [NoOp("put") EXCEPT !.prompt = prompt, !.keys = DOMAIN cache, !.at = now]
    /\ UNCHANGED <<handles, providers, installed, now, tasks, started, fails>>

\* cache.get(prompt)
CacheGet(prompt) ==
    /\ last' = [NoOp("get") EXCEPT !.prompt = prompt, !.at = now,
                                   !.result = get(cache, prompt, now)]
    /\ puts' = NoteGet(hash_key(prompt), get(cache, prompt, now))
    /\ cache' = CacheAfterRead(cache, hash_key(prompt), now)
    /\ UNCHANGED <<handles, providers, installed, now, tasks, started, fails>>

\* the cache's housekeeping drops an entry whose time to live has passed
CacheExpire(key) ==
    /\ key \in DOMAIN cache
    /\ Expired(cache[key], now)
    /\ cache' = CacheRemove(cache, key)
    /\ UNCHANGED <<handles, providers, installed, now, tasks, started, fails, puts, last>>

\* one second passes
Tick ==
    /\ now < MaxTime
    /\ now' = now + 1
    /\ UNCHANGED <<handles, providers, installed, cache, tasks, started, fails, puts, last>>

CacheInit == InitCommon /\ tasks = <<>>

CacheNext ==
    \/ \E p \in Prompts, r \in Responses : CachePut(p, r)
    \/ \E p \in Prompts : CacheGet(p)
    \/ \E k \in DOMAIN cache : CacheExpire(k)
    \/ Tick

SpecCache == CacheInit /\ [][CacheNext]_vars

-----------------------------------------------------------------------------
(* Spec: requests through gateway.rs handle_chat_completions, two at a time,
   each advancing by one access to shared state per step.  The counters
   request_count and error_count are written and never read, so each fetch_add
   on them shares the step of the streak access that follows it.  A request
   that has answered frees its slot and leaves its summary in last. *)

Tasks == {1, 2}

\* LlmRequest: the fields the core reads
Requests ==
    {[model |-> "gpt-4", prompt |-> "common_prompt"],
     [model |-> "gpt-4", prompt |-> "unique_50"],
     [model |-> "llama", prompt |-> "common_prompt"]}

\* a call with no timeout to a provider that never answers
CallNeverResolves == {}

\* Result<LlmResponse, String> of Provider::call: Ok, or the cause of the Err
CallOutcomes == {"ok", "HTTP 500"}

NoPrior == [inwin |-> FALSE, evicted |-> FALSE, value |-> None]

\* the locals of select
SelectLocals ==
    [snap |-> <<>>, loaded |-> 0, idx |-> 0, acc |-> SelectInit,
     evaluated |-> <<>>, skipped |-> {},
     cand |-> [streak |-> 0, fails |-> 0], seen |-> [streak |-> 0, fails |-> 0]]

IdleTask ==
    [pc |-> "idle", prompt |-> "", model |-> "", prior |-> NoPrior,
     sel |-> SelectLocals, provider_opt |-> None, call_result |-> "",
     latency |-> 0, old |-> 0, selects |-> 0, calls |-> 0, records |-> 0]

\* the three responses of the handler
OutcomeOk(resp) == [status |-> 200, body |-> resp]

OutcomeNoProvider == [status |-> 503, body |-> "No providers available"]

\* a failed call answered as if no provider had been available
OutcomeProviderErrorAs503(e) == [status |-> 503, body |-> "No providers available"]

OutcomeProviderError(e) == [status |-> 502, body |-> <<"Provider error: ", e>>]

\* a handler that selects again after a failed call
AfterCallErrRetry == "select"

\* an Err arm that falls through to the cache put
AfterCallErrCached == "put"

\* the Err arm of the handler goes to record_failure and answers
AfterCallErr == "record_failure"

\* metrics recorded on the tracker that the installed list has for the id of
\* the provider called
TrackerOfInstalled(t) ==
    LET h == Unwrap(tasks[t].provider_opt)
        same == {g \in Range(providers) : handles[g].config.id = handles[h].config.id}
    IN  IF same = {} THEN h ELSE CHOOSE g \in same : TRUE

\* metrics recorded on the head of the installed list
TrackerOfFirst(t) == providers[1]

\* provider.stats of the handler: the tracker of the handle select returned
TrackerOf(t) == Unwrap(tasks[t].provider_opt)

\* a select that reads the router's list again at every element
ListOfLive(t) ==
    IF tasks[t].sel.idx <= Len(providers) THEN providers ELSE tasks[t].sel.snap

\* the list the loop of select walks: the one its load returned
ListOf(t) == tasks[t].sel.snap

\* handles of the installed list, other than h, that pass the filter for model
OtherEligible(h, model) ==
    {g \in Range(providers) \ {h} : Eligible(handles[g], model)}

\* the summary a finished request leaves
Finished(r, cached, outcome) ==
    [NoOp("request") EXCEPT
        !.prompt = r.prompt, !.model = r.model, !.at = now,
        !.cached = cached, !.prior = r.prior, !.result = r.provider_opt,
        !.call_result = r.call_result, !.outcome = outcome,
        !.selects = r.selects, !.calls = r.calls, !.records = r.records,
        !.others = IF IsSome(r.provider_opt)
                   THEN OtherEligible(Unwrap(r.provider_opt), r.model) ELSE {}]

\* what a starting request can rely on: the last put of its prompt
Prior(key) ==
    IF key \in DOMAIN puts /\ now - puts[key].at < TtlSecs
    THEN [inwin |-> TRUE, evicted |-> puts[key].evicted, value |-> Some(puts[key].value)]
    ELSE NoPrior

\* lines 22-28: the request arrives and the cache is looked up
Start(t, req) ==
    /\ tasks[t].pc = "idle"
    /\ \A u \in Tasks : u < t => tasks[u].pc # "idle"
    /\ started < MaxRequests
    /\ started' = started + 1
    /\ LET hit == get(cache, req.prompt, now)
           r == [IdleTask EXCEPT !.prompt = req.prompt, !.model = req.model,
                                 !.prior = Prior(hash_key(req.prompt)),
                                 !.pc = "select"]
       IN  IF IsSome(hit)
           THEN /\ last' = Finished(r, hit, OutcomeOk(Unwrap(hit)))
                /\ UNCHANGED tasks
           ELSE /\ tasks' = [tasks EXCEPT ![t] = r]
                /\ UNCHANGED last
    /\ puts' = NoteGet(hash_key(req.prompt), get(cache, req.prompt, now))
    /\ cache' = CacheAfterRead(cache, hash_key(req.prompt), now)
    /\ UNCHANGED <<handles, providers, installed, now, fails>>

\* the end of select and the match on provider_opt (lines 33, 71-74)
SelectDone(t, r) ==
    IF r.sel.idx <= Len(r.sel.snap)
    THEN /\ tasks' = [tasks EXCEPT ![t] = r]
         /\ UNCHANGED last
    ELSE IF IsSome(r.sel.acc.best)
         THEN /\ tasks' = [tasks EXCEPT ![t] =
                             [r EXCEPT !.provider_opt = r.sel.acc.best, !.pc = "call"]]
              /\ UNCHANGED last
         ELSE /\ tasks' = [tasks EXCEPT ![t] = IdleTask]
              /\ last' = Finished(r, None, OutcomeNoProvider)

\* select, line 95: self.providers.load()
SelectLoad(t) ==
    /\ tasks[t].pc = "select"
    /\ SelectDone(t, [tasks[t] EXCEPT
                         !.sel = [SelectLocals EXCEPT !.snap = providers,
                                                      !.loaded = Len(installed),
                                                      !.idx = 1],
                         !.selects = @ + 1, !.pc = "filter"])
    /\ UNCHANGED <<handles, providers, installed, cache, now, started, fails, puts>>

\* select, lines 98-100: the filter on the next element of the list
SelectFilter(t) ==
    /\ tasks[t].pc = "filter"
    /\ LET r == tasks[t]
           h == ListOf(t)[r.sel.idx]
           p == handles[h]
           r1 == [r EXCEPT !.sel.evaluated = Append(@, h)]
       IN  IF Eligible(p, r.model)
           THEN /\ tasks' = [tasks EXCEPT ![t] =
                               [r1 EXCEPT !.pc = "score",
                                          !.sel.cand = [streak |-> p.stats.consec_errors,
                                                        fails |-> fails[h]]]]
                /\ UNCHANGED last
           ELSE SelectDone(t, [r1 EXCEPT
                      !.sel.idx = @ + 1,
                      !.sel.skipped = IF supports_model(p, r.model)
                                      THEN @ \cup {h} ELSE @])
    /\ UNCHANGED <<handles, providers, installed, cache, now, started, fails, puts>>

\* select, lines 111-127: the loop body on a candidate that passed the filter
SelectScore(t) ==
    /\ tasks[t].pc = "score"
    /\ LET r == tasks[t]
           h == ListOf(t)[r.sel.idx]
           acc2 == SelectKeep(r.sel.acc, h, handles[h])
       IN  SelectDone(t, [r EXCEPT !.sel.acc = acc2,
                                   !.sel.seen = IF acc2 # r.sel.acc THEN r.sel.cand ELSE @,
                                   !.sel.idx = @ + 1, !.pc = "filter"])
    /\ UNCHANGED <<handles, providers, installed, cache, now, started, fails, puts>>

\* line 38: provider.call(&req) returns Ok or Err; it touches no tracker
Call(t, result) ==
    /\ tasks[t].pc = "call"
    /\ tasks' = [tasks EXCEPT ![t] =
                    [@ EXCEPT !.call_result = result,
                              !.calls = @ + 1,
                              !.sel = SelectLocals,
                              !.latency = CallLatency(handles[Unwrap(tasks[t].provider_opt)].config),
                              !.pc = IF result = "ok" THEN "record_success"
                                     ELSE AfterCallErr]]
    /\ UNCHANGED <<handles, providers, installed, cache, now, started, fails, puts, last>>

\* record_success, lines 30-31: request_count.fetch_add(1); consec_errors.store(0)
RsReset(t) ==
    /\ tasks[t].pc = "record_success"
    /\ LET h == TrackerOf(t)
       IN  /\ handles' = [handles EXCEPT ![h].stats.request_count = @ + 1,
                                         ![h].stats.consec_errors = 0]
           /\ fails' = [fails EXCEPT ![h] = 0]
    /\ tasks' = [tasks EXCEPT ![t].pc = "ewma_load", ![t].records = @ + 1]
    /\ UNCHANGED <<providers, installed, cache, now, started, puts, last>>

\* record_success, line 41: old = ewma_latency_us.load()
RsLoad(t) ==
    /\ tasks[t].pc = "ewma_load"
    /\ tasks' = [tasks EXCEPT ![t].old = handles[TrackerOf(t)].stats.ewma_latency_us,
                              ![t].pc = "ewma_cas"]
    /\ UNCHANGED <<handles, providers, installed, cache, now, started, fails, puts, last>>

\* record_success, lines 43-52: compare_exchange_weak(old, new_val), retried with
\* the value found when it fails
RsCas(t) ==
    /\ tasks[t].pc = "ewma_cas"
    /\ LET r == tasks[t]
           h == TrackerOf(t)
           cur == handles[h].stats.ewma_latency_us
       IN  IF cur = r.old
           THEN /\ handles' = [handles EXCEPT ![h].stats.ewma_latency_us =
                                  EwmaNext(r.old, r.latency)]
                /\ tasks' = [tasks EXCEPT ![t].pc = "put"]
           ELSE /\ tasks' = [tasks EXCEPT ![t].old = cur]
                /\ UNCHANGED handles
    /\ UNCHANGED <<providers, installed, cache, now, started, fails, puts, last>>

\* lines 47-62: stamp latency_ms, cache.put(prompt, resp), answer 200
PutAndRespond(t) ==
    /\ tasks[t].pc = "put"
    /\ LET r == tasks[t]
           resp == Response(handles[Unwrap(r.provider_opt)].config, r.latency)
       IN  /\ \E c2 \in put(cache, r.prompt, resp, now) :
                 /\ cache' = c2
                 /\ puts' = NotePut(hash_key(r.prompt), resp, c2)
           /\ last' = Finished(r, None, OutcomeOk(resp))
    /\ tasks' = [tasks EXCEPT ![t] = IdleTask]
    /\ UNCHANGED <<handles, providers, installed, now, started, fails>>

\* lines 64-68: record_failure() (error_count and consec_errors fetch_add), answer 502
FailAndRespond(t) ==
    /\ tasks[t].pc = "record_failure"
    /\ LET h == TrackerOf(t)
       IN  /\ handles' = [handles EXCEPT ![h].stats = record_failure(@)]
           /\ fails' = [fails EXCEPT ![h] = @ + 1]
    /\ last' = Finished([tasks[t] EXCEPT !.records = @ + 1], None,
                        OutcomeProviderError(tasks[t].call_result))
    /\ tasks' = [tasks EXCEPT ![t] = IdleTask]
    /\ UNCHANGED <<providers, installed, cache, now, started, puts>>

\* the tracker of p1 as w failed calls in a row leave it
Warm(w) == [StatsNew EXCEPT !.error_count = w, !.consec_errors = w]

Init ==
    /\ providers = FreshList(<<>>, MainConfigs)
    /\ installed = <<FreshList(<<>>, MainConfigs)>>
    /\ cache = <<>>
    /\ now = 0
    /\ started = 0
    /\ puts = <<>>
    /\ last = NoOp("new")
    /\ tasks = [t \in Tasks |-> IdleTask]
    /\ \E w \in {0, WarmStreak} :
          /\ handles = [FreshHandles(<<>>, MainConfigs) EXCEPT ![1].stats = Warm(w)]
          /\ fails = [i \in 1..Len(MainConfigs) |-> IF i = 1 THEN w ELSE 0]

Next ==
    \/ \E t \in Tasks, req \in Requests : Start(t, req)
    \/ \E t \in Tasks : SelectLoad(t)
    \/ \E t \in Tasks : SelectFilter(t)
    \/ \E t \in Tasks : SelectScore(t)
    \/ \E t \in Tasks, res \in CallOutcomes : Call(t, res)
    \/ \E t \in Tasks : RsReset(t)
    \/ \E t \in Tasks : RsLoad(t)
    \/ \E t \in Tasks : RsCas(t)
    \/ \E t \in Tasks : PutAndRespond(t)
    \/ \E t \in Tasks : FailAndRespond(t)
    \/ \E k \in DOMAIN cache : CacheExpire(k)
    \/ Tick

Spec == Init /\ [][Next]_vars

\* a step of request t after its cache lookup
TaskStep(t) ==
    \/ SelectLoad(t)
    \/ SelectFilter(t)
    \/ SelectScore(t)
    \/ \E res \in CallOutcomes : Call(t, res)
    \/ RsReset(t)
    \/ RsLoad(t)
    \/ RsCas(t)
    \/ PutAndRespond(t)
    \/ FailAndRespond(t)

\* SpecLive: Spec under fair scheduling.  The runtime keeps polling every
\* request task, the call resolves within its 5-second timeout, and a
\* compare_exchange_weak does not fail for ever on a value that matches (such
\* a failure is a stuttering step), so a request that can take a step
\* eventually takes one.
SpecLive == Spec /\ \A t \in Tasks : WF_vars(TaskStep(t))

\* SpecReload: the same requests while another thread replaces the provider
\* list through update_providers; the clock stands still
ReloadNext ==
    \/ \E t \in Tasks, req \in Requests : started < MaxReloadRequests /\ Start(t, req)
    \/ \E t \in Tasks : SelectLoad(t)
    \/ \E t \in Tasks : SelectFilter(t)
    \/ \E t \in Tasks : SelectScore(t)
    \/ \E t \in Tasks, res \in CallOutcomes : Call(t, res)
    \/ \E t \in Tasks : RsReset(t)
    \/ \E t \in Tasks : RsLoad(t)
    \/ \E t \in Tasks : RsCas(t)
    \/ \E t \in Tasks : PutAndRespond(t)
    \/ \E t \in Tasks : FailAndRespond(t)
    \/ \E c \in ConfigLists : UpdateProviders(c)

SpecReload == Init /\ [][ReloadNext]_vars

-----------------------------------------------------------------------------
(* SpecStats: worker threads on the tracker of one provider handle, each call
   of record_success or record_failure advancing by one atomic access per
   step.  last keeps the history: the latencies of the record_success calls
   in call order (called) and in the order their compare-exchange succeeded
   (applied), and the number of compare-exchange failures (retries).  A
   spurious failure of compare_exchange_weak returns the value the thread
   already holds and changes nothing, so it is a stuttering step. *)

Workers == {1, 2, 3}

\* latency_us handed to record_success by the workers
Latencies == {50000, 200000}

IdleWorker == [pc |-> "idle", latency |-> 0, old |-> 0]

\* an update of the EWMA that stores without comparing
CompareExchangeBlind(current, expected) == TRUE

\* compare_exchange_weak(old, new_val): succeeds when the field holds old
CompareExchangeHit(current, expected) == current = expected

\* a record_failure that marks the failure instead of counting it
StreakAfterFailureMarked(streak) == IF streak = 0 THEN 1 ELSE streak

\* consec_errors.fetch_add(1)
StreakAfterFailure(streak) == streak + 1

\* record_success, line 30: request_count.fetch_add(1)
StatsCountRequest(t, latency_us) ==
    /\ tasks[t].pc = "idle"
    /\ started < MaxStatsOps
    /\ started' = started + 1
    /\ handles' = [handles EXCEPT ![1].stats.request_count = @ + 1]
    /\ tasks' = [tasks EXCEPT ![t] = [pc |-> "rs_store", latency |-> latency_us, old |-> 0]]
    /\ last' = [last EXCEPT !.op = "record_success", !.called = Append(@, latency_us)]
    /\ UNCHANGED <<providers, installed, cache, now, fails, puts>>

\* record_success, line 31: consec_errors.store(0)
StatsStoreStreak(t) ==
    /\ tasks[t].pc = "rs_store"
    /\ handles' = [handles EXCEPT ![1].stats.consec_errors = 0]
    /\ fails' = [fails EXCEPT ![1] = 0]
    /\ tasks' = [tasks EXCEPT ![t].pc = "rs_load"]
    /\ UNCHANGED <<providers, installed, cache, now, started, puts, last>>

\* record_success, line 41: old = ewma_latency_us.load()
StatsLoadEwma(t) ==
    /\ tasks[t].pc = "rs_load"
    /\ tasks' = [tasks EXCEPT ![t].old = handles[1].stats.ewma_latency_us,
                              ![t].pc = "rs_cas"]
    /\ UNCHANGED <<handles, providers, installed, cache, now, started, fails, puts, last>>

\* record_success, lines 43-52: one turn of the loop
StatsCompareExchange(t) ==
    /\ tasks[t].pc = "rs_cas"
    /\ LET r == tasks[t]
           cur == handles[1].stats.ewma_latency_us
       IN  IF CompareExchangeHit(cur, r.old)
           THEN /\ handles' = [handles EXCEPT ![1].stats.ewma_latency_us =
                                  EwmaNext(r.old, r.latency)]
                /\ tasks' = [tasks EXCEPT ![t] = IdleWorker]
                /\ last' = [last EXCEPT !.applied = Append(@, r.latency)]
           ELSE /\ tasks' = [tasks EXCEPT ![t].old = cur]
                /\ last' = [last EXCEPT !.retries = @ + 1]
                /\ UNCHANGED handles
    /\ UNCHANGED <<providers, installed, cache, now, started, fails, puts>>

\* record_failure, line 57: error_count.fetch_add(1)
StatsCountError(t) ==
    /\ tasks[t].pc = "idle"
    /\ started < MaxStatsOps
    /\ started' = started + 1
    /\ handles' = [handles EXCEPT ![1].stats.error_count = @ + 1]
    /\ tasks' = [tasks EXCEPT ![t].pc = "rf_streak"]
    /\ UNCHANGED <<providers, installed, cache, now, fails, puts, last>>

\* record_failure, line 58: consec_errors.fetch_add(1)
StatsAddStreak(t) ==
    /\ tasks[t].pc = "rf_streak"
    /\ handles' = [handles EXCEPT ![1].stats.consec_errors = StreakAfterFailure(@)]
    /\ fails' = [fails EXCEPT ![1] = @ + 1]
    /\ tasks' = [tasks EXCEPT ![t] = IdleWorker]
    /\ UNCHANGED <<providers, installed, cache, now, started, puts, last>>

StatsInit == InitCommon /\ tasks = [t \in Workers |-> IdleWorker]

StatsNext ==
    \/ \E t \in Workers, l \in Latencies : StatsCountRequest(t, l)
    \/ \E t \in Workers : StatsStoreStreak(t)
    \/ \E t \in Workers : StatsLoadEwma(t)
    \/ \E t \in Workers : StatsCompareExchange(t)
    \/ \E t \in Workers : StatsCountError(t)
    \/ \E t \in Workers : StatsAddStreak(t)

SpecStats == StatsInit /\ [][StatsNext]_vars

-----------------------------------------------------------------------------
(* SpecEwma: one thread calling record_success with the same latency again and
   again on a tracker whose EWMA starts at any value; last keeps the latency
   and the starting value (before).  The values stay far below 2^64 / 7, as
   those of the program do, where a call lasts at most its 5-second timeout. *)

\* provider.stats.record_success(latency), with the latency of the run
EwmaRecordSuccess ==
    /\ started < MaxEwmaCalls
    /\ started' = started + 1
    /\ handles' = [handles EXCEPT ![1].stats = record_success(@, last.latency)]
    /\ UNCHANGED <<providers, installed, cache, now, tasks, fails, puts, last>>

EwmaInit ==
    /\ providers = FreshList(<<>>, MainConfigs)
    /\ installed = <<FreshList(<<>>, MainConfigs)>>
    /\ cache = <<>>
    /\ now = 0
    /\ started = 0
    /\ fails = [i \in 1..Len(MainConfigs) |-> 0]
    /\ puts = <<>>
    /\ tasks = <<>>
    /\ \E e \in 0..MaxMicros, l \in 0..MaxMicros :
          /\ handles = [FreshHandles(<<>>, MainConfigs) EXCEPT
                           ![1].stats.ewma_latency_us = e]
          /\ last = [NoOp("record_success") EXCEPT !.latency = l, !.before = e]

EwmaSteps == EwmaRecordSuccess

SpecEwma == EwmaInit /\ [][EwmaSteps]_vars

-----------------------------------------------------------------------------
(* Claims checked under SpecRouter *)

\* indices of the list of the last select that pass its filter
EligibleAt(model) ==
    {i \in 1..Len(last.list) : Eligible(handles[last.list[i]], model)}

\* the first index of the list whose score no eligible candidate undercuts
FirstMinimal(model) ==
    CHOOSE i \in EligibleAt(model) :
        /\ \A j \in EligibleAt(model) :
              ~F64Lt(Score(handles[last.list[j]]), Score(handles[last.list[i]]))
        /\ \A j \in EligibleAt(model) :
              j < i => F64Lt(Score(handles[last.list[i]]), Score(handles[last.list[j]]))

\* C2: with the list and the metrics held fixed, select returns the eligible
\* candidate of smallest score, the first in list order among equal scores.
C2_SelectReturnsMinimum ==
    (last.op = "select" /\ EligibleAt(last.model) # {})
        => last.result = Some(last.list[FirstMinimal(last.model)])

\* C2, for candidates whose score is below f64::MAX: the same statement.
C2_MinimumBelowMax ==
    (/\ last.op = "select"
     /\ \E i \in EligibleAt(last.model) :
           F64Lt(Score(handles[last.list[i]]), F64Max))
        => last.result = Some(last.list[FirstMinimal(last.model)])

\* C2: scenario A has been selected: p1 at 50 ms and 0.01 wins over p2 at
\* 200 ms and 0.012.
C2_ScenarioA ==
    /\ last.op = "select"
    /\ Len(last.list) = 2
    /\ handles[last.list[1]].config = CfgP1
    /\ handles[last.list[1]].stats.ewma_latency_us = 50000
    /\ handles[last.list[2]].config = CfgP2
    /\ handles[last.list[2]].stats.ewma_latency_us = 200000
    /\ last.result = Some(last.list[1])

AllZero(s) ==
    /\ s.request_count = 0
    /\ s.error_count = 0
    /\ s.ewma_latency_us = 0
    /\ s.consec_errors = 0

\* C9: right after update_providers every installed provider has all metrics
\* at zero and is healthy, whatever its history under the previous list.
C9_DiscardOnUpdate ==
    last.op = "update_providers" =>
        \A h \in Range(providers) : AllZero(handles[h].stats) /\ is_healthy(handles[h])

\* C9: the update has just reinstalled a provider id that was unhealthy in the
\* previous list.
C9_UnhealthyReinstalled ==
    /\ last.op = "update_providers"
    /\ \E h \in Range(providers) : handles[h].config.id \in last.unhealthy

-----------------------------------------------------------------------------
(* Claims checked under SpecCache *)

LastKey == hash_key(last.prompt)

InWindow(k) == k \in DOMAIN puts /\ last.at - puts[k].at < TtlSecs

\* C5 as stated: a get within the TTL of the last put of its prompt returns
\* the response put, and any other get misses.
C5_RoundTripWithExpiry ==
    last.op = "get" =>
        IF InWindow(LastKey) THEN last.result = Some(puts[LastKey].value)
        ELSE last.result = None

\* C5 amended: a get within the TTL of the last put of its prompt returns the
\* response put unless that entry was evicted for capacity, and then it
\* misses; a get after the TTL, or of a prompt never put, misses.
C5_RoundTripUnlessEvicted ==
    last.op = "get" =>
        IF InWindow(LastKey) /\ ~puts[LastKey].evicted
        THEN last.result = Some(puts[LastKey].value)
        ELSE last.result = None

\* C5: a get has missed on an entry that is still stored but past its TTL,
\* after an earlier get had returned that same put.
C5_ExpiredButStored ==
    /\ last.op = "get"
    /\ last.result = None
    /\ LastKey \in DOMAIN cache
    /\ LastKey \in DOMAIN puts
    /\ puts[LastKey].hit

-----------------------------------------------------------------------------
(* Claims checked under SpecReload *)

C3_SnapshotAtomicity ==
    \A t \in Tasks :
        tasks[t].pc \in {"filter", "score", "call"} =>
            LET r == tasks[t].sel
            IN  /\ r.loaded \in 1..Len(installed)
                /\ r.snap = installed[r.loaded]
                /\ Len(r.evaluated) <= Len(r.snap)
                /\ r.evaluated = SubSeq(installed[r.loaded], 1, Len(r.evaluated))

\* C3: a select is on the last element of the list it loaded, having evaluated
\* all of it, while a newer list is installed.
C3_UpdateDuringSelect ==
    \E t \in Tasks :
        /\ tasks[t].pc = "score"
        /\ tasks[t].sel.loaded < Len(installed)
        /\ Len(tasks[t].sel.evaluated) = 2
        /\ tasks[t].sel.evaluated = installed[tasks[t].sel.loaded]

-----------------------------------------------------------------------------
(* Claims checked under Spec *)

Answered(value) ==
    /\ last.cached = value
    /\ last.selects = 0
    /\ last.calls = 0
    /\ last.outcome = OutcomeOk(Unwrap(value))

\* C6 as stated: a request that starts within the TTL of a put of its prompt
\* is answered from the cache, with no select and no call.
C6_SecondCallHits ==
    /\ \A t \in Tasks : tasks[t].pc # "idle" => ~tasks[t].prior.inwin
    /\ (last.op = "request" /\ last.prior.inwin) => Answered(last.prior.value)

\* C6 amended: the same, unless the entry of the prompt was evicted for
\* capacity since that put.
C6_SecondCallHitsUnlessEvicted ==
    /\ \A t \in Tasks :
          (tasks[t].pc # "idle" /\ tasks[t].prior.inwin) => tasks[t].prior.evicted
    /\ (last.op = "request" /\ last.prior.inwin /\ ~last.prior.evicted)
          => Answered(last.prior.value)

\* C6: a request has been answered from the cache at a later second than the
\* put of its prompt.
C6_HitAfterSuccess ==
    /\ last.op = "request"
    /\ last.prior.inwin
    /\ IsSome(last.cached)
    /\ last.calls = 0
    /\ last.at > puts[hash_key(last.prompt)].at

CallFailed == last.call_result \notin {"", "ok"}

\* C7: a finished request has one of three outcomes: 200 exactly for a cache
\* hit or a successful call, 503 exactly when select returned none, 502
\* exactly when the call failed, and then with the cause in the body.
C7_OutcomeMapping ==
    last.op = "request" =>
        /\ last.outcome.status \in {200, 502, 503}
        /\ last.outcome.status = 200 <=> (IsSome(last.cached) \/ last.call_result = "ok")
        /\ last.outcome.status = 503 <=>
              (last.cached = None /\ last.selects = 1 /\ last.result = None)
        /\ last.outcome.status = 502 <=> CallFailed
        /\ CallFailed => last.outcome.body = <<"Provider error: ", last.call_result>>
        /\ IsSome(last.cached) => last.outcome.body = Unwrap(last.cached)

\* C7: a request has ended 502 on a failed call.
C7_BadGateway ==
    /\ last.op = "request"
    /\ last.outcome.status = 502
    /\ last.call_result = "HTTP 500"

\* C8: a request selects at most once and calls at most once, and a failed
\* call ends it with the failure outcome after that one select and one call.
C8_NoRetryNoFailover ==
    /\ \A t \in Tasks : tasks[t].selects <= 1 /\ tasks[t].calls <= 1
    /\ last.op = "request" =>
          /\ last.selects <= 1
          /\ last.calls <= 1
          /\ CallFailed =>
                (last.outcome.status = 502 /\ last.selects = 1 /\ last.calls = 1)

\* C8: a request has ended on its failed call while another installed
\* provider passed the filter for its model.
C8_FailedWithAlternative ==
    /\ last.op = "request"
    /\ CallFailed
    /\ last.others # {}

-----------------------------------------------------------------------------
(* Claims checked under SpecStats *)

\* the updates of seq applied one after another to the EWMA e
RECURSIVE EwmaFold(_, _)
EwmaFold(e, seq) ==
    IF seq = <<>> THEN e ELSE EwmaFold(EwmaNext(e, Head(seq)), Tail(seq))

Occurrences(seq, x) == Cardinality({i \in 1..Len(seq) : seq[i] = x})

InRecordSuccess == {t \in Workers : tasks[t].pc \in {"rs_store", "rs_load", "rs_cas"}}

\* C11: the request count is the number of record_success calls made, every
\* call's update is applied exactly once and its loop ends with it, and the
\* EWMA is the result of applying the updates one after another in the order
\* their compare-exchange succeeded; when no call is running that order is a
\* permutation of the calls.
C11_NoLostUpdate ==
    /\ handles[1].stats.request_count = Len(last.called)
    /\ Len(last.applied) + Cardinality(InRecordSuccess) = Len(last.called)
    /\ handles[1].stats.ewma_latency_us = EwmaFold(0, last.applied)
    /\ InRecordSuccess = {} =>
          \A l \in Latencies : Occurrences(last.applied, l) = Occurrences(last.called, l)

\* C11: three record_success calls have run to the end, one of them retried
\* its compare-exchange, and the updates landed in another order than the
\* calls were made.
C11_RetriedAndReordered ==
    /\ InRecordSuccess = {}
    /\ Len(last.applied) >= 3
    /\ last.retries >= 1
    /\ last.applied # last.called

\* a step of SpecStats moves the streak as its operation says: the store of
\* record_success leaves 0, the fetch_add of record_failure leaves one more,
\* and no other step changes it
StreakStep ==
    LET streak == handles[1].stats.consec_errors
        streak2 == handles'[1].stats.consec_errors
        stores == {t \in Workers : tasks[t].pc = "rs_store" /\ tasks'[t].pc = "rs_load"}
        adds == {t \in Workers : tasks[t].pc = "rf_streak" /\ tasks'[t].pc = "idle"}
    IN  /\ stores # {} => streak2 = 0
        /\ adds # {} => streak2 = streak + 1
        /\ (stores = {} /\ adds = {}) => streak2 = streak
        /\ streak2 < streak => stores # {}

\* C13: in every interleaving the streak is the number of record_failure
\* increments since the last record_success reset; each reset leaves it at
\* zero, each increment raises it by one, and it goes down only by a reset.
C13_StreakSemantics ==
    /\ [](handles[1].stats.consec_errors = fails[1])
    /\ [][StreakStep]_vars

\* C13: four calls have overlapped on the tracker: one failure landed before
\* the reset of a success and two after it, while the success is still
\* updating the EWMA.
C13_ResetBetweenFailures ==
    /\ handles[1].stats.error_count = 3
    /\ handles[1].stats.consec_errors = 2
    /\ \E t \in Workers : tasks[t].pc \in {"rs_load", "rs_cas"}

-----------------------------------------------------------------------------
(* Claims checked under SpecEwma *)

Distance(a, b) == IF a < b THEN b - a ELSE a - b

\* C12: with a constant latency L, after as many record_success calls as the
\* starting EWMA is away from L, the EWMA is at a value that a further
\* record_success(L) does not change and that is less than 8 away from L;
\* from the starting value 0 the first call, and every later one, leaves
\* exactly L.
C12_EwmaConverges ==
    LET e == handles[1].stats.ewma_latency_us
    IN  /\ (last.before = 0 /\ started >= 1) => e = last.latency
        /\ started >= Distance(last.before, last.latency) =>
              /\ EwmaNext(e, last.latency) = e
              /\ Distance(e, last.latency) < EwmaDivisor

\* C12: the EWMA has moved up from a positive start and come to rest below the
\* latency, within rounding.
C12_RestsBelowLatency ==
    LET e == handles[1].stats.ewma_latency_us
    IN  /\ last.before > 0
        /\ e > last.before
        /\ e < last.latency
        /\ EwmaNext(e, last.latency) = e

-----------------------------------------------------------------------------
(* Claims on the trackers checked under Spec *)

\* the tracker fields of every handle but h are left alone by the step
OthersUntouched(h) ==
    \A g \in 1..Len(handles) : g # h => handles'[g] = handles[g]

\* what a step of request t may do to the trackers
MetricsStep(t) ==
    LET r == tasks[t]
        h == Unwrap(r.provider_opt)
        s == handles[h].stats
        s2 == handles'[h].stats
    IN  CASE r.pc = "call" ->
                /\ handles' = handles
                /\ tasks'[t].pc = "record_success" <=> tasks'[t].call_result = "ok"
                /\ tasks'[t].pc = "record_failure" <=> tasks'[t].call_result # "ok"
          [] r.pc = "record_success" ->
                /\ OthersUntouched(h)
                /\ s2.request_count = s.request_count + 1
                /\ s2.error_count = s.error_count
          [] r.pc \in {"ewma_load", "ewma_cas"} ->
                /\ OthersUntouched(h)
                /\ s2.request_count = s.request_count
                /\ s2.error_count = s.error_count
                /\ s2.consec_errors = s.consec_errors
          [] r.pc = "record_failure" ->
                /\ OthersUntouched(h)
                /\ s2.error_count = s.error_count + 1
                /\ s2.consec_errors = s.consec_errors + 1
                /\ s2.request_count = s.request_count
                /\ s2.ewma_latency_us = s.ewma_latency_us
          [] OTHER -> handles' = handles

\* C14: Provider::call changes no tracker; the call is followed by one metrics
\* update, record_success after Ok and record_failure after Err, made on the
\* tracker of the handle select returned; no step of a request changes any
\* other tracker, and a finished request has recorded once per call.
C14_MetricsOncePerCall ==
    /\ [][\A t \in Tasks : tasks'[t] # tasks[t] => MetricsStep(t)]_vars
    /\ [][(\A t \in Tasks : tasks'[t] = tasks[t]) => handles' = handles]_vars
    /\ [](\A t \in Tasks :
            /\ tasks[t].records <= tasks[t].calls
            /\ tasks[t].pc \in {"ewma_load", "ewma_cas", "put"} =>
                  (tasks[t].records = 1 /\ tasks[t].call_result = "ok"))
    /\ [](last.op = "request" => (last.records = last.calls /\ last.calls <= 1))

\* C14: a request that select sent to the second provider of the list has
\* ended on a failed call, and that failure is on the second tracker.
C14_FailureOnSecond ==
    /\ last.op = "request"
    /\ CallFailed
    /\ last.result = Some(providers[2])
    /\ last.records = 1
    /\ handles[providers[2]].stats.error_count >= 1

\* requests that hold handle h: select returned it to them, and they are
\* calling it or recording the result of the call
HeldBy(h) == {t \in Tasks : tasks[t].provider_opt = Some(h)}

\* requests whose select is under way with h through the filter: h is the
\* candidate being scored or the best one so far
Selecting(h) ==
    {t \in Tasks :
        /\ tasks[t].pc \in {"filter", "score"}
        /\ \/ tasks[t].sel.acc.best = Some(h)
           \/ tasks[t].pc = "score" /\ tasks[t].sel.snap[tasks[t].sel.idx] = h}

\* h is in the installed list, unhealthy, and no request holds it
OpenAndIdle(h) ==
    /\ h \in Range(providers)
    /\ ~is_healthy(handles[h])
    /\ HeldBy(h) = {}

OpenAndQuiet(h) == OpenAndIdle(h) /\ Selecting(h) = {}

\* an unhealthy tracker becomes healthy only by the reset of a record_success
\* on that tracker
HealthOnlyBySuccess ==
    \A h \in 1..Len(handles) :
        (~is_healthy(handles[h]) /\ is_healthy(handles'[h])) =>
            \E t \in Tasks : /\ tasks[t].pc = "record_success"
                             /\ TrackerOf(t) = h
                             /\ tasks'[t].pc = "ewma_load"

\* C15 as stated: health comes back only through record_success; and once a
\* provider of the list is unhealthy with no call to it pending, no select
\* returns it and it stays unhealthy.
C15_NoRecoveryOnceIdle ==
    /\ [][HealthOnlyBySuccess]_vars
    /\ [][\A h \in 1..Len(handles) :
             (OpenAndIdle(h) /\ providers' = providers) => OpenAndIdle(h)']_vars

\* C15 amended: the same, for a provider that in addition no select under way
\* has already let through its filter.
C15_NoRecoveryOnceQuiet ==
    /\ [][HealthOnlyBySuccess]_vars
    /\ [][\A h \in 1..Len(handles) :
             (OpenAndQuiet(h) /\ providers' = providers) => OpenAndQuiet(h)']_vars

\* C15: a select has passed over the first provider, unhealthy and quiet, and
\* returned the second, at a later second than the start.
C15_OpenProviderPassedOver ==
    /\ OpenAndQuiet(providers[1])
    /\ now > 0
    /\ \E t \in Tasks :
          /\ tasks[t].pc = "call"
          /\ tasks[t].provider_opt = Some(providers[2])
          /\ providers[1] \in tasks[t].sel.skipped

-----------------------------------------------------------------------------
(* More claims checked under SpecRouter *)

\* C16: select returns none exactly when no provider of the list it loaded
\* passes the filter.
C16_NoneIffNoEligible ==
    last.op = "select" => (last.result = None <=> EligibleAt(last.model) = {})

\* C16: select has returned none on a list whose only provider passes the
\* filter and has a score that is not below f64::MAX.
C16_NoneDespiteEligible ==
    /\ last.op = "select"
    /\ last.result = None
    /\ EligibleAt(last.model) # {}
    /\ \A i \in EligibleAt(last.model) : ~F64Lt(Score(handles[last.list[i]]), F64Max)

-----------------------------------------------------------------------------
(* Claims checked under SpecLive *)

-----------------------------------------------------------------------------
(* Claims on the cache checked under Spec *)

\* request t is calling a provider or has called one
Calling(t) == tasks[t].pc = "call" \/ tasks[t].calls >= 1

\* the request started within the TTL of a put of its prompt whose entry had
\* not been evicted for capacity
Covered(prior) == prior.inwin /\ ~prior.evicted

\* C18 as stated: of the requests with one prompt that are under way at the
\* same time, at most one calls a provider.
C18_OneCallPerPrompt ==
    \A t, u \in Tasks :
        (t # u /\ tasks[t].prompt = tasks[u].prompt /\ Calling(t)) => ~Calling(u)

\* C18 amended: every request makes at most one provider call, and only a
\* request whose cache lookup missed makes one; a request that starts within
\* the TTL of a completed put of its prompt, the entry not evicted, makes none.
C18_OneCallPerMiss ==
    /\ \A t \in Tasks :
          /\ tasks[t].calls <= 1
          /\ Calling(t) => ~Covered(tasks[t].prior)
    /\ last.op = "request" =>
          /\ last.calls <= 1
          /\ last.calls = 1 => (last.cached = None /\ ~Covered(last.prior))
          /\ Covered(last.prior) => (last.calls = 0 /\ IsSome(last.cached))

\* C18: two requests with the same prompt, both having missed the cache, have
\* each called a provider.
C18_TwoCallsOnePrompt ==
    \E t, u \in Tasks :
        /\ t # u
        /\ tasks[t].prompt = tasks[u].prompt
        /\ tasks[t].calls = 1
        /\ tasks[u].calls = 1

\* the step is the arrival of a request that is answered at once
HitStep == started' # started /\ tasks' = tasks

\* C19: a request whose prompt has an unexpired entry is answered from it with
\* the success outcome, whatever its model and the state of the providers,
\* and the step leaves every tracker, the provider list and the cache as they
\* were; only a request whose prompt has no such entry goes on to select.
C19_HitTouchesNothing ==
    /\ [][HitStep =>
            /\ handles' = handles
            /\ providers' = providers
            /\ cache' = cache
            /\ last'.op = "request"
            /\ IsSome(last'.cached)
            /\ last'.cached = CacheLookup(cache, hash_key(last'.prompt), now)
            /\ last'.outcome = OutcomeOk(Unwrap(last'.cached))
            /\ last'.selects = 0 /\ last'.calls = 0 /\ last'.records = 0]_vars
    /\ [][\A t \in Tasks :
             (tasks[t].pc = "idle" /\ tasks'[t].pc # "idle") =>
                 CacheLookup(cache, hash_key(tasks'[t].prompt), now) = None]_vars

\* C19: a request for a model that no installed provider maps has been
\* answered from the cache, a second or more after the entry was put.
C19_HitForUnsupportedModel ==
    /\ last.op = "request"
    /\ IsSome(last.cached)
    /\ last.outcome.status = 200
    /\ \A h \in Range(providers) : ~supports_model(handles[h], last.model)
    /\ last.at > puts[hash_key(last.prompt)].at

\* the step changes the cache only as a put after a successful call does, the
\* value put being the response answered, or as the expiry of an entry does
CacheChangeAllowed ==
    \/ \E t \in Tasks :
          /\ tasks[t].pc = "put"
          /\ tasks[t].calls = 1
          /\ tasks[t].call_result = "ok"
          /\ tasks'[t].pc = "idle"
          /\ last'.outcome.status = 200
          /\ last'.outcome.body \in Responses
          /\ cache' \in put(cache, tasks[t].prompt, last'.outcome.body, now)
    \/ \E k \in DOMAIN cache : Expired(cache[k], now) /\ cache' = CacheRemove(cache, k)

\* request t ends on this step without having got a response from a provider
EndsInFailure(t) ==
    /\ tasks[t].pc # "idle"
    /\ tasks'[t].pc = "idle"
    /\ last'.outcome.status \in {502, 503}

\* C20: the cache changes only by the put that follows a successful call (and
\* by expiry); a request that ends 502 or 503 leaves the cache as it was; so
\* every entry, and every response a hit returns, is a response of a
\* successful call, and a request that comes after a failed one and finds no
\* entry for its prompt goes to select.
C20_OnlySuccessesCached ==
    /\ [][cache' # cache => CacheChangeAllowed]_vars
    /\ [][\A t \in Tasks : EndsInFailure(t) => (cache' = cache /\ puts' = puts)]_vars
    /\ [](\A k \in DOMAIN cache : cache[k].value \in Responses)
    /\ []((last.op = "request" /\ IsSome(last.cached)) => Unwrap(last.cached) \in Responses)
    /\ []((last.op = "request" /\ last.outcome.status \in {502, 503}) =>
             (last.cached = None /\ last.selects = 1))

\* C20: the first request ended on a failed call; the second, started after
\* it with the same prompt, has missed the cache and been sent to a provider
\* by its own select.
C20_CalledAgainAfterFailure ==
    /\ started = 2
    /\ last.op = "request"
    /\ CallFailed
    /\ tasks[2].pc = "idle"
    /\ tasks[1].pc = "call"
    /\ tasks[1].prompt = last.prompt
    /\ tasks[1].selects = 1
    /\ hash_key(last.prompt) \notin DOMAIN cache

-----------------------------------------------------------------------------
(* More claims checked under SpecReload *)

\* the installed lists that handle h belongs to
ListsOf(h) == {i \in 1..Len(installed) : h \in Range(installed[i])}

\* a step of request t, which holds a handle, changes no tracker but that of
\* the handle it holds, and the request goes on holding that handle
RecordsOnHeld(t) ==
    LET h == Unwrap(tasks[t].provider_opt)
    IN  /\ \A g \in 1..Len(handles) : g # h => handles'[g] = handles[g]
        /\ tasks'[t].pc # "idle" => tasks'[t].provider_opt = Some(h)

\* C21: a request records on the tracker of the handle its select returned,
\* a handle of the list that select loaded, also when update_providers has
\* replaced the list since; update_providers leaves the old trackers as they
\* were; so the tracker of a handle changes only by a request that holds that
\* handle, and those of a newly installed list only by requests whose select
\* loaded that list.
C21_InFlightAcrossUpdate ==
    /\ [](\A t \in Tasks :
            tasks[t].pc = "call" =>
                ListsOf(Unwrap(tasks[t].provider_opt)) = {tasks[t].sel.loaded})
    /\ [](\A h \in 1..Len(handles) : Cardinality(ListsOf(h)) = 1)
    /\ [][\A t \in Tasks :
             (tasks'[t] # tasks[t] /\ IsSome(tasks[t].provider_opt)) => RecordsOnHeld(t)]_vars
    /\ [][\A h \in 1..Len(handles) :
             handles'[h] # handles[h] =>
                 \E t \in Tasks : tasks'[t] # tasks[t] /\ tasks[t].provider_opt = Some(h)]_vars

\* C21: a request that held a handle of the replaced list has recorded the
\* result of its call on it after the update, and the trackers of the new
\* list are as update_providers made them.
C21_RecordedOnOldHandle ==
    /\ Len(installed) = 2
    /\ last.op = "request"
    /\ last.records = 1
    /\ IsSome(last.result)
    /\ Unwrap(last.result) \notin Range(providers)
    /\ handles[Unwrap(last.result)].stats.request_count
          + handles[Unwrap(last.result)].stats.error_count >= 1
    /\ \E g \in Range(providers) :
          handles[g].config.id = handles[Unwrap(last.result)].config.id
    /\ \A g \in Range(providers) : AllZero(handles[g].stats)

====
